---------------------------- MODULE Spec2Model ----------------------------
(***************************************************************************)
(* A model of work-log: the SQLite storage layer (app/db.py), the          *)
(* WorkEntry value object (app/models.py) and the session and report       *)
(* commands of the command line (app/cli.py).                              *)
(*                                                                         *)
(* Representation.                                                         *)
(*  - A Python datetime is the triple <<day, second of day, microsecond>>;  *)
(*    day n is the date 2023-04-30 + n, so day 0 is a Sunday and day 1 the  *)
(*    Monday 2023-05-01.  A Python date is the day number.                  *)
(*  - Python None and SQL NULL are the empty sequence.                      *)
(*  - The ISO-8601 text of a datetime is the sequence of its zero-padded    *)
(*    fields: <<date, time>> when the microsecond is 0 (isoformat() leaves  *)
(*    the fraction out) and <<date, time, microsecond>> otherwise.  SQLite  *)
(*    compares texts byte by byte, a proper prefix being the smaller.       *)
(*  - A timedelta is <<whole seconds, microseconds>>, normalised as Python  *)
(*    does (0 <= microseconds < 10^6, the sign carried by the seconds).     *)
(*    A float number of hours h is held as the timedelta of length h hours  *)
(*    (h = total_seconds / 3600), so sums of hours are exact.               *)
(*  - A string that is parsed (a project reference) is a sequence of        *)
(*    one-character strings.                                                *)
(***************************************************************************)
EXTENDS Integers, Sequences, FiniteSets, TLC

VARIABLES
    projects,     \* table projects: id -> [name, is_billed_hourly, hour_rate]
    entries,      \* table work_entries: id -> [project_id, description, start_time, end_time]
    projectSeq,   \* AUTOINCREMENT counter of projects (largest id ever given)
    entrySeq,     \* AUTOINCREMENT counter of work_entries
    clock,        \* the last value datetime.now() returned
    last,         \* the last command that ended: its name, argument and outcome
    pc,           \* per process: where its running `start` command stands
    local         \* per process: the local variables of its `start` command

vars == <<projects, entries, projectSeq, entrySeq, clock, last, pc, local>>

storage == <<projects, entries>>

-----------------------------------------------------------------------------
(* Bounds of the model *)

\* Storage holds at most this many projects ever created.
MaxProjects == 2

\* Storage holds at most this many work entries ever created.
MaxEntries == 2

\* Days range over 0..MaxDay: Sunday, the week Monday..Sunday, next Monday.
MaxDay == 8

\* datetime.now() reads one of the first MaxClockTick + 1 instants.
MaxClockTick == 2

-----------------------------------------------------------------------------
(* Program constants *)

\* datetime.max.time() is 23:59:59.999999
MaxSecond == 86399

MaxMicrosecond == 999999

SecondsPerDay == 86400

MicrosPerSecond == 1000000

\* end_of_week = start_of_week + timedelta(days=6)
LastWeekdayOffset == 6

\* range(7): the seven day buckets of the weekly report
DaysInWeek == 7

\* date.weekday() of day 0 (2023-04-30, a Sunday; Monday is 0)
WeekdayOfDayZero == 6

None == <<>>

NULL == <<>>

-----------------------------------------------------------------------------
(* Input sets *)

Days == 0..MaxDay

\* Times of day of the modelled instants: midnight (datetime.min.time()),
\* the last whole second of the day, and datetime.max.time().
TimesOfDay == { <<0, 0>>, <<MaxSecond, 0>>, <<MaxSecond, MaxMicrosecond>> }

Instants == { <<d, t[1], t[2]>> : d \in Days, t \in TimesOfDay }

\* the instants in order: three a day
InstantAt(k) ==
    LET times == << <<0, 0>>, <<MaxSecond, 0>>, <<MaxSecond, MaxMicrosecond>> >>
        t     == times[(k % Len(times)) + 1]
    IN  << k \div Len(times), t[1], t[2] >>

ClockInstants == { InstantAt(k) : k \in 0..MaxClockTick }

Descriptions == { "task" }

Digits == { "0", "1", "2", "3", "4", "5", "6", "7", "8", "9" }

\* Project names and project references: sequences of characters.
Names == { <<"a">>, <<"2">> }

-----------------------------------------------------------------------------
(* datetime, timedelta and ISO text *)

\* datetime.__lt__
DtLess(a, b) ==
    \/ a[1] < b[1]
    \/ a[1] = b[1] /\ a[2] < b[2]
    \/ a[1] = b[1] /\ a[2] = b[2] /\ a[3] < b[3]

DtLeq(a, b) == a = b \/ DtLess(a, b)

\* datetime.isoformat(): the fraction is written only when it is not zero
isoformat(dt) ==
    IF dt[3] = 0 THEN <<dt[1], dt[2]>> ELSE <<dt[1], dt[2], dt[3]>>

\* datetime.fromisoformat(): a missing fraction reads as microsecond 0
fromisoformat(txt) ==
    <<txt[1], txt[2], IF Len(txt) >= 3 THEN txt[3] ELSE 0>>

\* `x.isoformat() if x else None` (a datetime is always true)
ToText(x) == IF x = None THEN NULL ELSE isoformat(x)

\* `datetime.fromisoformat(row[c]) if row[c] else None`
FromText(txt) == IF txt = NULL THEN None ELSE fromisoformat(txt)

\* SQLite's comparison of two TEXT values (BINARY collation): the first
\* differing field decides, and a proper prefix is smaller.
TextLess(a, b) ==
    \E i \in 1..(Len(a) + 1) :
        /\ \A j \in 1..(i - 1) : j <= Len(b) /\ a[j] = b[j]
        /\ \/ i <= Len(a) /\ i <= Len(b) /\ a[i] < b[i]
           \/ i = Len(a) + 1 /\ i <= Len(b)

\* SQL `x < y`: NULL (not true) when an operand is NULL
SqlLess(x, y) == x # NULL /\ y # NULL /\ TextLess(x, y)

\* BETWEEN with the bounds left out: x > lo AND x < hi
SqlBetweenExclusive(x, lo, hi) ==
    x # NULL /\ TextLess(lo, x) /\ TextLess(x, hi)

\* SQL `x BETWEEN lo AND hi`: x >= lo AND x <= hi
SqlBetween(x, lo, hi) ==
    x # NULL /\ ~TextLess(x, lo) /\ ~TextLess(hi, x)

\* datetime.combine(day, datetime.min.time())
StartOfDay(day) == <<day, 0, 0>>

\* datetime.combine(day, datetime.max.time())
EndOfDay(day) == <<day, MaxSecond, MaxMicrosecond>>

\* date.weekday(): Monday is 0
Weekday(day) == (day + WeekdayOfDayZero) % DaysInWeek

\* date_in_week - timedelta(days=date_in_week.weekday())
StartOfWeek(day) == day - Weekday(day)

\* a week that ends on its Saturday
EndOfWeekSaturday(day) == StartOfWeek(day) + (LastWeekdayOffset - 1)

\* end_of_week = start_of_week + timedelta(days=6)
EndOfWeek(day) == StartOfWeek(day) + LastWeekdayOffset

\* datetime - datetime: a normalised timedelta <<seconds, microseconds>>
DtSub(a, b) ==
    LET s == (a[1] - b[1]) * SecondsPerDay + (a[2] - b[2])
        u == a[3] - b[3]
    IN  IF u < 0 THEN <<s - 1, u + MicrosPerSecond>> ELSE <<s, u>>

ZeroDelta == <<0, 0>>

\* the sum of two timedeltas (of two floats held as timedeltas)
TdAdd(x, y) ==
    LET u == x[2] + y[2]
    IN  IF u >= MicrosPerSecond
        THEN <<x[1] + y[1] + 1, u - MicrosPerSecond>>
        ELSE <<x[1] + y[1], u>>

\* timedelta.__bool__: false exactly for timedelta(0)
TdTruthy(x) == x # ZeroDelta


-----------------------------------------------------------------------------
(* Storage layer: app/db.py *)

\* float(project.hour_rate) on the way in, Decimal(str(row["hour_rate"])) on
\* the way out; both are exact for the whole-number rates of the model.
RateToReal(rate) == IF rate = None THEN NULL ELSE <<rate[1]>>

RateFromReal(real) == IF real = NULL THEN None ELSE <<real[1]>>

\* Database._create_project_from_row
ProjectFromRow(id, row) ==
    [ id               |-> id,
      name             |-> row.name,
      is_billed_hourly |-> row.is_billed_hourly # 0,
      hour_rate        |-> RateFromReal(row.hour_rate) ]

\* the row a Project object is written as (create_project, update_project)
ProjectRow(p) ==
    [ name             |-> p.name,
      is_billed_hourly |-> IF p.is_billed_hourly THEN 1 ELSE 0,
      hour_rate        |-> RateToReal(p.hour_rate) ]

\* the WorkEntry built from a row of work_entries
EntryFromRow(id, row) ==
    [ id          |-> id,
      project_id  |-> row.project_id,
      description |-> row.description,
      start_time  |-> FromText(row.start_time),
      end_time    |-> FromText(row.end_time) ]

\* the row a WorkEntry object is written as (create_work_entry, update_work_entry)
EntryRow(e) ==
    [ project_id  |-> e.project_id,
      description |-> e.description,
      start_time  |-> ToText(e.start_time),
      end_time    |-> ToText(e.end_time) ]

\* Database.get_project
GetProject(projs, id) ==
    IF id \in DOMAIN projs THEN ProjectFromRow(id, projs[id]) ELSE None

\* Database.get_project_by_name: name is UNIQUE, so at most one row matches
GetProjectByName(projs, name) ==
    LET hit == { id \in DOMAIN projs : projs[id].name = name }
    IN  IF hit = {} THEN None
        ELSE LET id == CHOOSE i \in hit : TRUE IN ProjectFromRow(id, projs[id])

\* the UNIQUE constraint left out of the table definition
NameTakenNever(projs, name, except) == FALSE

\* the UNIQUE constraint on projects.name: would inserting or renaming to
\* `name` (for the row `except`, 0 for an insert) raise IntegrityError?
NameTaken(projs, name, except) ==
    \E id \in DOMAIN projs : id # except /\ projs[id].name = name

\* a table with one more row
Insert(table, id, row) ==
    [ i \in DOMAIN table \cup {id} |-> IF i = id THEN row ELSE table[i] ]

\* a table without a row
Remove(table, id) == [ i \in DOMAIN table \ {id} |-> table[i] ]

\* Database.create_project: the table after the INSERT
CreateProject(projs, seq, p) == Insert(projs, seq + 1, ProjectRow(p))

\* the foreign key enforced, with ON DELETE CASCADE
OnDeleteCascade(ents, pid) ==
    [ id \in { i \in DOMAIN ents : ents[i].project_id # pid } |-> ents[id] ]

\* `FOREIGN KEY (project_id) REFERENCES projects (id)`: the work_entries
\* table after a project row is deleted.  The connection never sets PRAGMA
\* foreign_keys, so SQLite does not enforce the key: the entries stay.
OnDeleteProject(ents, pid) == ents

\* Database.delete_project: the table after the DELETE
DeleteProject(projs, id) == Remove(projs, id)

\* Database.create_work_entry: the table after the INSERT
CreateWorkEntry(ents, seq, e) == Insert(ents, seq + 1, EntryRow(e))

\* update_work_entry whose WHERE matches no row
UpdateWorkEntryNoRow(ents, e) == ents

\* an UPDATE whose SET list leaves end_time out
UpdateWorkEntryKeepsEnd(ents, e) ==
    IF e.id \in DOMAIN ents
    THEN [ ents EXCEPT ![e.id] = [ EntryRow(e) EXCEPT !.end_time = ents[e.id].end_time ] ]
    ELSE ents

\* Database.update_work_entry: the table after the UPDATE ... WHERE id = ?
UpdateWorkEntry(ents, e) ==
    IF e.id \in DOMAIN ents THEN [ ents EXCEPT ![e.id] = EntryRow(e) ] ELSE ents

\* the rows `SELECT * FROM work_entries WHERE end_time IS NULL` matches
ActiveIds(ents) == { id \in DOMAIN ents : ents[id].end_time = NULL }

\* the smallest element of a non-empty set of row ids
MinId(ids) == CHOOSE i \in ids : \A j \in ids : i <= j

\* get_active_work_entry without its WHERE end_time IS NULL
GetFirstWorkEntry(ents) ==
    IF DOMAIN ents = {} THEN None
    ELSE LET id == MinId(DOMAIN ents) IN EntryFromRow(id, ents[id])

\* get_active_work_entry with WHERE end_time IS NOT NULL
GetClosedWorkEntry(ents) ==
    IF DOMAIN ents \ ActiveIds(ents) = {} THEN None
    ELSE LET id == MinId(DOMAIN ents \ ActiveIds(ents)) IN EntryFromRow(id, ents[id])

\* Database.get_active_work_entry: fetchone() of the rows above; SQLite
\* scans the table in rowid order, so the first row is the smallest id.
GetActiveWorkEntry(ents) ==
    IF ActiveIds(ents) = {} THEN None
    ELSE LET id == MinId(ActiveIds(ents)) IN EntryFromRow(id, ents[id])

\* Database.get_work_entry
GetWorkEntry(ents, id) ==
    IF id \in DOMAIN ents THEN EntryFromRow(id, ents[id]) ELSE None

\* the WHERE clause without `OR e.end_time IS NULL`
OverlapWhereNoActive(row, lo, hi) ==
    \/ SqlBetween(row.start_time, lo, hi)
    \/ SqlBetween(row.end_time, lo, hi)
    \/ SqlLess(row.start_time, lo) /\ SqlLess(hi, row.end_time)

\* The WHERE clause of get_entries_for_day and get_entries_for_week, on the
\* ISO texts of the period's first and last instant.
OverlapWhere(row, lo, hi) ==
    \/ SqlBetween(row.start_time, lo, hi)
    \/ SqlBetween(row.end_time, lo, hi)
    \/ /\ SqlLess(row.start_time, lo)
       /\ (SqlLess(hi, row.end_time) \/ row.end_time = NULL)

\* `JOIN projects p ON e.project_id = p.id ... WHERE ...`: the matching ids
SelectIds(projs, ents, lo, hi) ==
    { id \in DOMAIN ents :
        /\ ents[id].project_id \in DOMAIN projs
        /\ OverlapWhere(ents[id], lo, hi) }

\* ORDER BY e.start_time (rows of equal start_time in rowid order)
RECURSIVE OrderByStart(_, _)
OrderByStart(ents, ids) ==
    IF ids = {} THEN <<>>
    ELSE LET first == CHOOSE i \in ids : \A j \in ids \ {i} :
                          \/ TextLess(ents[i].start_time, ents[j].start_time)
                          \/ ents[i].start_time = ents[j].start_time /\ i < j
         IN  <<first>> \o OrderByStart(ents, ids \ {first})

\* the (WorkEntry, Project) pairs built from the selected rows
Pairs(projs, ents, order) ==
    [ k \in 1..Len(order) |->
        [ entry   |-> EntryFromRow(order[k], ents[order[k]]),
          project |-> ProjectFromRow(ents[order[k]].project_id,
                                     projs[ents[order[k]].project_id]) ] ]

\* Database.get_entries_for_day
GetEntriesForDay(projs, ents, day) ==
    Pairs(projs, ents,
          OrderByStart(ents, SelectIds(projs, ents,
                                       isoformat(StartOfDay(day)),
                                       isoformat(EndOfDay(day)))))

\* Database.get_entries_for_week
GetEntriesForWeek(projs, ents, day) ==
    Pairs(projs, ents,
          OrderByStart(ents, SelectIds(projs, ents,
                                       isoformat(StartOfDay(StartOfWeek(day))),
                                       isoformat(EndOfDay(EndOfWeek(day))))))

-----------------------------------------------------------------------------
(* WorkEntry: app/models.py *)

\* a duration that counts an open entry up to the end of its start day
DurationToEndOfDay(e) ==
    IF e.end_time # None THEN DtSub(e.end_time, e.start_time)
    ELSE DtSub(EndOfDay(e.start_time[1]), e.start_time)

\* WorkEntry.duration: `if self.start_time and self.end_time`
Duration(e) ==
    IF e.start_time # None /\ e.end_time # None
    THEN DtSub(e.end_time, e.start_time)
    ELSE None

\* WorkEntry.duration_hours: `if self.duration` is false for None and for
\* timedelta(0); the value is duration.total_seconds() / 3600
DurationHours(e) ==
    IF Duration(e) # None /\ TdTruthy(Duration(e)) THEN Duration(e) ELSE None

\* `if entry.duration_hours`: false for None and for 0.0
HoursTruthy(h) == h # None /\ h # ZeroDelta

\* the End and Hours columns of an entry's row in the daily report:
\* `entry.end_time.strftime("%H:%M") if entry.end_time else "In progress"` and
\* `f"{entry.duration_hours:.2f}" if entry.duration_hours else "N/A"`
EntryColumns(e) ==
    [ end   |-> IF e.end_time # None THEN <<e.end_time[2]>> ELSE "In progress",
      hours |-> IF HoursTruthy(DurationHours(e)) THEN <<DurationHours(e)>> ELSE "N/A" ]

-----------------------------------------------------------------------------
(* Report aggregation: app/cli.py, _show_day_report and _show_week_report.
   The reports print; the model keeps the values they print. *)

\* the elements of a sequence
Range(seq) == { seq[k] : k \in 1..Len(seq) }

\* the keys of a dict filled in this order: each key once, first seen first
RECURSIVE InsertionOrder(_)
InsertionOrder(keys) ==
    IF keys = <<>> THEN <<>>
    ELSE LET before == InsertionOrder(SubSeq(keys, 1, Len(keys) - 1))
             key    == keys[Len(keys)]
         IN  IF key \in Range(before) THEN before ELSE Append(before, key)

\* projects_dict / entries_by_project keys: project.id of each pair in turn
ProjectOrder(pairs) ==
    InsertionOrder([ k \in 1..Len(pairs) |-> pairs[k].project.id ])

\* entries_by_project[project_id] of the daily report
EntriesOfProject(pairs, pid) ==
    LET Mine(pair) == pair.project.id = pid
        mine == SelectSeq(pairs, Mine)
    IN  [ k \in 1..Len(mine) |-> mine[k].entry ]

\* entries_by_project[project_id][entry_date] of the weekly report:
\* entry_date = entry.start_time.date()
EntriesOfProjectOn(pairs, pid, date) ==
    LET Mine(pair) == pair.project.id = pid /\ pair.entry.start_time[1] = date
        mine == SelectSeq(pairs, Mine)
    IN  [ k \in 1..Len(mine) |-> mine[k].entry ]

\* `total = 0; for entry in ...: if entry.duration_hours: total += entry.duration_hours`
RECURSIVE SumHours(_)
SumHours(es) ==
    IF es = <<>> THEN ZeroDelta
    ELSE LET sofar == SumHours(SubSeq(es, 1, Len(es) - 1))
             hours == DurationHours(es[Len(es)])
         IN  IF HoursTruthy(hours) THEN TdAdd(sofar, hours) ELSE sofar

\* `acc = amount[k]` for `acc += amount[k]`
AccumulateAssigns(amount, keys) ==
    IF keys = <<>> THEN ZeroDelta ELSE amount[keys[Len(keys)]]

\* `acc = 0; for k in keys: acc += amount[k]`
RECURSIVE Accumulate(_, _)
Accumulate(amount, keys) ==
    IF keys = <<>> THEN ZeroDelta
    ELSE TdAdd(Accumulate(amount, SubSeq(keys, 1, Len(keys) - 1)),
               amount[keys[Len(keys)]])

\* _show_day_report: None when there are no entries ("No work entries for"),
\* else the projects in display order, each one's total and the grand total.
DayReport(projs, ents, day) ==
    LET pairs == GetEntriesForDay(projs, ents, day)
        order == ProjectOrder(pairs)
        hours == [ pid \in Range(order) |-> SumHours(EntriesOfProject(pairs, pid)) ]
    IN  IF pairs = <<>> THEN None
        ELSE [ order         |-> order,
               entries       |-> [ pid \in Range(order) |-> EntriesOfProject(pairs, pid) ],
               project_hours |-> hours,
               total_hours   |-> Accumulate(hours, order) ]

\* days_in_week = [start_of_week + timedelta(days=i) for i in range(7)]
WeekDays(day) == [ i \in 1..DaysInWeek |-> StartOfWeek(day) + (i - 1) ]

\* the dates that are keys of entries_by_project[pid], in insertion order
DatesOfProject(pairs, pid) ==
    LET Mine(pair) == pair.project.id = pid
        mine == SelectSeq(pairs, Mine)
    IN  InsertionOrder([ k \in 1..Len(mine) |-> mine[k].entry.start_time[1] ])

\* project_hours[project_id]: day_total added for every date the project has
\* entries under
RECURSIVE ProjectWeekHours(_, _, _)
ProjectWeekHours(pairs, pid, dates) ==
    IF dates = <<>> THEN ZeroDelta
    ELSE TdAdd(ProjectWeekHours(pairs, pid, SubSeq(dates, 1, Len(dates) - 1)),
               SumHours(EntriesOfProjectOn(pairs, pid, dates[Len(dates)])))

\* one cell of a project's row: the day's total, or None for "-"
WeekCell(pairs, pid, date) ==
    IF EntriesOfProjectOn(pairs, pid, date) # <<>>
    THEN SumHours(EntriesOfProjectOn(pairs, pid, date))
    ELSE None

\* _show_week_report: None when there are no entries, else the projects in
\* display order, each one's seven cells and total, and the grand total.
WeekReport(projs, ents, day) ==
    LET pairs == GetEntriesForWeek(projs, ents, day)
        order == ProjectOrder(pairs)
        days  == WeekDays(day)
        hours == [ pid \in Range(order) |->
                     ProjectWeekHours(pairs, pid, DatesOfProject(pairs, pid)) ]
    IN  IF pairs = <<>> THEN None
        ELSE [ order         |-> order,
               days          |-> days,
               cells         |-> [ pid \in Range(order) |->
                                     [ i \in 1..DaysInWeek |-> WeekCell(pairs, pid, days[i]) ] ],
               project_hours |-> hours,
               total_hours   |-> Accumulate(hours, order) ]

\* `if project.hour_rate`: a Decimal is false exactly when it is zero
RateTruthy(rate) == rate # None /\ rate[1] # 0

\* `project_hours[project_id] > 0`
HoursPositive(h) == h[1] > 0 \/ (h[1] = 0 /\ h[2] > 0)

\* Decimal(str(hours)) * project.hour_rate: the product, held as hours are
\* (the amount is this many rate units times one hour)
Amount(hours, rate) ==
    LET u == hours[2] * rate[1]
    IN  << hours[1] * rate[1] + (u \div MicrosPerSecond), u % MicrosPerSecond >>

\* projects_dict[project_id]: the Project of the pairs of that project
ProjectOf(pairs, pid) ==
    pairs[CHOOSE k \in 1..Len(pairs) : pairs[k].project.id = pid].project

\* one printed billing amount
BillingLine(project, hours) ==
    [ project |-> project.id,
      hours   |-> hours,
      rate    |-> project.hour_rate,
      amount  |-> Amount(hours, project.hour_rate) ]

\* _show_day_report, "Calculate billing if applicable": the billing amounts
\* printed, in display order
DayBilling(projs, ents, day) ==
    LET pairs  == GetEntriesForDay(projs, ents, day)
        report == DayReport(projs, ents, day)
        Billed(pid) == /\ ProjectOf(pairs, pid).is_billed_hourly
                       /\ RateTruthy(ProjectOf(pairs, pid).hour_rate)
        billed == SelectSeq(report.order, Billed)
    IN  IF report = None THEN <<>>
        ELSE [ k \in 1..Len(billed) |->
                 BillingLine(ProjectOf(pairs, billed[k]),
                             report.project_hours[billed[k]]) ]

\* a weekly report that prints an amount for each day cell of a billed project
WeekBillingPerDay(projs, ents, day) ==
    LET pairs  == GetEntriesForWeek(projs, ents, day)
        report == WeekReport(projs, ents, day)
        cells  == IF report = None THEN <<>>
                  ELSE [ n \in 1..(Len(report.order) * DaysInWeek) |->
                           [ pid  |-> report.order[((n - 1) \div DaysInWeek) + 1],
                             cell |-> report.cells[report.order[((n - 1) \div DaysInWeek) + 1]]
                                                  [((n - 1) % DaysInWeek) + 1] ] ]
        Billed(c) == /\ ProjectOf(pairs, c.pid).is_billed_hourly
                     /\ RateTruthy(ProjectOf(pairs, c.pid).hour_rate)
                     /\ c.cell # None /\ HoursPositive(c.cell)
        billed == SelectSeq(cells, Billed)
    IN  [ k \in 1..Len(billed) |->
            BillingLine(ProjectOf(pairs, billed[k].pid), billed[k].cell) ]

\* _show_week_report, "Print billing information if applicable": the billing
\* amounts printed, in display order
WeekBilling(projs, ents, day) ==
    LET pairs  == GetEntriesForWeek(projs, ents, day)
        report == WeekReport(projs, ents, day)
        Billed(pid) == /\ ProjectOf(pairs, pid).is_billed_hourly
                       /\ RateTruthy(ProjectOf(pairs, pid).hour_rate)
                       /\ HoursPositive(report.project_hours[pid])
        billed == SelectSeq(report.order, Billed)
    IN  IF report = None THEN <<>>
        ELSE [ k \in 1..Len(billed) |->
                 BillingLine(ProjectOf(pairs, billed[k]),
                             report.project_hours[billed[k]]) ]

-----------------------------------------------------------------------------
(* Initial state: a fresh database file (Database._init_db creates the two
   empty tables) and no command run yet. *)

NoCommand == [ op |-> "none", ref |-> <<>>, outcome |-> "none", target |-> 0, closed |-> 0 ]

\* the operating-system processes that run commands on the one database file
Procs == { 1, 2 }

\* the locals of a process that is not inside `start`
NoLocals == [ ref |-> <<>>, description |-> "", active |-> None, target |-> None ]

Init ==
    /\ projects = <<>>
    /\ entries = <<>>
    /\ projectSeq = 0
    /\ entrySeq = 0
    /\ clock = <<0, 0, 0>>
    /\ last = NoCommand
    /\ pc = [ p \in Procs |-> "idle" ]
    /\ local = [ p \in Procs |-> NoLocals ]

-----------------------------------------------------------------------------
(* The storage interface called directly, as tests/test_workflow.py and
   tests/test_cli.py do to set up projects and entries of any dates. *)

\* db.create_project(Project(name, is_billed_hourly, hour_rate)); a name
\* already stored raises sqlite3.IntegrityError and stores nothing.
DbCreateProject(name, hourly, rate) ==
    /\ projectSeq < MaxProjects
    /\ ~NameTaken(projects, name, 0)
    /\ projects' = CreateProject(projects, projectSeq,
                       [ name |-> name, is_billed_hourly |-> hourly, hour_rate |-> rate ])
    /\ projectSeq' = projectSeq + 1
    /\ UNCHANGED <<entries, entrySeq, clock, last, pc, local>>

\* db.delete_project(id)
DbDeleteProject(id) ==
    /\ id \in DOMAIN projects
    /\ projects' = DeleteProject(projects, id)
    /\ entries' = OnDeleteProject(entries, id)
    /\ UNCHANGED <<projectSeq, entrySeq, clock, last, pc, local>>

\* db.create_work_entry(WorkEntry(project_id, description, start_time, end_time))
DbCreateWorkEntry(pid, desc, start, end) ==
    /\ entrySeq < MaxEntries
    /\ entries' = CreateWorkEntry(entries, entrySeq,
                      [ project_id |-> pid, description |-> desc,
                        start_time |-> start, end_time |-> end ])
    /\ entrySeq' = entrySeq + 1
    /\ UNCHANGED <<projects, projectSeq, clock, last, pc, local>>

\* entry = db.get_active_work_entry(); entry.end_time = end;
\* db.update_work_entry(entry)
DbCloseActiveEntry(end) ==
    /\ GetActiveWorkEntry(entries) # None
    /\ entries' = UpdateWorkEntry(entries,
                      [ GetActiveWorkEntry(entries) EXCEPT !.end_time = end ])
    /\ UNCHANGED <<projects, projectSeq, entrySeq, clock, last, pc, local>>

\* Days on which the entries made through the storage interface start and
\* end: the Sunday before the week, its Monday, its Sunday, the Monday after.
EntryDays == { 0, 1, MaxDay - 1, MaxDay }

EntryInstants == { i \in Instants : i[1] \in EntryDays }

\* The coarser instants of the report specification: midnight and the last
\* whole second of each entry day.
ReportInstants == { i \in EntryInstants : i[3] = 0 }

\* Queries: one project (created, deleted, created again under a new id) and
\* entries of project 1 between any two entry instants, created complete or
\* created active and closed later.
NextQuery ==
    \/ DbCreateProject(<<"a">>, FALSE, None)
    \/ \E id \in 1..MaxProjects : DbDeleteProject(id)
    \/ \E desc \in Descriptions, start \in EntryInstants,
          end \in EntryInstants \cup {None} :
           DbCreateWorkEntry(1, desc, start, end)
    \/ \E end \in EntryInstants : DbCloseActiveEntry(end)

SpecQuery == Init /\ [][NextQuery]_vars

\* hour_rate of the hourly project of the reports: zero, or 85 an hour
HourlyRates == { <<0>>, <<85>> }

\* Reports: an hourly and a fixed-price project and entries of either.
NextReport ==
    \/ \E rate \in HourlyRates : DbCreateProject(<<"a">>, TRUE, rate)
    \/ DbCreateProject(<<"2">>, FALSE, None)
    \/ \E pid \in 1..MaxProjects, desc \in Descriptions,
          start \in ReportInstants, end \in ReportInstants \cup {None} :
           DbCreateWorkEntry(pid, desc, start, end)

SpecReport == Init /\ [][NextReport]_vars

-----------------------------------------------------------------------------
(* The commands: app/cli.py.  A command is run by a process p; `start` makes
   several storage calls, each committed on its own, and is modelled call by
   call; the other commands are one step each, taken between commands. *)

\* the characters "0".."9" in order
DigitChars == << "0", "1", "2", "3", "4", "5", "6", "7", "8", "9" >>

DigitValue(c) == (CHOOSE i \in 1..Len(DigitChars) : DigitChars[i] = c) - 1

\* does int(ref) return (rather than raise ValueError)?  On references made
\* of letters and digits: when ref is a non-empty string of digits.
IsIntLiteral(ref) == ref # <<>> /\ \A i \in 1..Len(ref) : ref[i] \in Digits

\* int(ref), base 10
RECURSIVE IntValue(_)
IntValue(ref) ==
    IF ref = <<>> THEN 0
    ELSE 10 * IntValue(SubSeq(ref, 1, Len(ref) - 1)) + DigitValue(ref[Len(ref)])

\* start_work, "Find the project": get_project(int(ref)), and
\* get_project_by_name(ref) only when int(ref) raises ValueError
ResolveProject(projs, ref) ==
    IF IsIntLiteral(ref) THEN GetProject(projs, IntValue(ref))
    ELSE GetProjectByName(projs, ref)

\* CloseEntry with the assignment left out
CloseEntryForgets(e, now) == e

\* CloseEntry that also resets the start
CloseEntryResetsStart(e, now) == [ e EXCEPT !.start_time = now, !.end_time = now ]

\* CloseEntry that takes the entry's own start for the end
CloseEntryAtStart(e, now) == [ e EXCEPT !.end_time = e.start_time ]

\* `active_entry.end_time = datetime.now()`
CloseEntry(e, now) == [ e EXCEPT !.end_time = now ]

\* a clock that may step backwards
NowAnyInstant(t) == t \in ClockInstants /\ clock' = t

\* datetime.now(): an instant not before the last one read
Now(t) == t \in ClockInstants /\ DtLeq(clock, t) /\ clock' = t

Ended(op, ref, outcome, target, closed) ==
    [ op |-> op, ref |-> ref, outcome |-> outcome, target |-> target, closed |-> closed ]

\* project-add NAME (--hourly and --rate left at their defaults)
AddProject(p, name) ==
    /\ pc[p] = "idle"
    /\ projectSeq < MaxProjects
    /\ IF GetProjectByName(projects, name) # None
       THEN /\ last' = Ended("project-add", <<>>, "exists", 0, 0)
            /\ UNCHANGED <<projects, projectSeq>>
       ELSE /\ projects' = CreateProject(projects, projectSeq,
                               [ name |-> name, is_billed_hourly |-> FALSE, hour_rate |-> None ])
            /\ projectSeq' = projectSeq + 1
            /\ last' = Ended("project-add", <<>>, "added", projectSeq + 1, 0)
    /\ UNCHANGED <<entries, entrySeq, clock, pc, local>>

\* Database.update_project: the table after the UPDATE ... WHERE id = ?
UpdateProjectRow(projs, proj) ==
    IF proj.id \in DOMAIN projs THEN [ projs EXCEPT ![proj.id] = ProjectRow(proj) ] ELSE projs

\* project-update ID [--name NAME]: an UPDATE to a name another project has
\* raises sqlite3.IntegrityError, which nothing catches
UpdateProject(p, id, name) ==
    /\ pc[p] = "idle"
    /\ LET project == GetProject(projects, id)
           renamed == IF name # None THEN [ project EXCEPT !.name = name ] ELSE project
       IN  IF project = None
           THEN /\ last' = Ended("project-update", <<>>, "not_found", 0, 0)
                /\ UNCHANGED projects
           ELSE IF NameTaken(projects, renamed.name, id)
           THEN /\ last' = Ended("project-update", <<>>, "crash", id, 0)
                /\ UNCHANGED projects
           ELSE /\ projects' = UpdateProjectRow(projects, renamed)
                /\ last' = Ended("project-update", <<>>, "updated", id, 0)
    /\ UNCHANGED <<entries, projectSeq, entrySeq, clock, pc, local>>

\* project-delete ID, the confirmation answered (or --force given: confirm)
DeleteProjectCmd(p, id, confirm) ==
    /\ pc[p] = "idle"
    /\ IF GetProject(projects, id) = None
       THEN /\ last' = Ended("project-delete", <<>>, "not_found", 0, 0)
            /\ UNCHANGED storage
       ELSE IF ~confirm
       THEN /\ last' = Ended("project-delete", <<>>, "cancelled", id, 0)
            /\ UNCHANGED storage
       ELSE /\ projects' = DeleteProject(projects, id)
            /\ entries' = OnDeleteProject(entries, id)
            /\ last' = Ended("project-delete", <<>>, "deleted", id, 0)
    /\ UNCHANGED <<projectSeq, entrySeq, clock, pc, local>>

\* start PROJECT DESCRIPTION, "Check for active work": get_active_work_entry,
\* and with an active entry get_project(active_entry.project_id), whose .name
\* the message reads: AttributeError when that project is gone.
StartCheck(p, ref, desc) ==
    /\ pc[p] = "idle"
    /\ entrySeq < MaxEntries
    /\ LET active == GetActiveWorkEntry(entries)
       IN  IF active = None
           THEN /\ pc' = [ pc EXCEPT ![p] = "resolve" ]
                /\ local' = [ local EXCEPT ![p] =
                                [ ref |-> ref, description |-> desc,
                                  active |-> None, target |-> None ] ]
                /\ UNCHANGED last
           ELSE IF GetProject(projects, active.project_id) = None
           THEN /\ last' = Ended("start", ref, "crash", 0, 0)
                /\ UNCHANGED <<pc, local>>
           ELSE /\ pc' = [ pc EXCEPT ![p] = "confirm" ]
                /\ local' = [ local EXCEPT ![p] =
                                [ ref |-> ref, description |-> desc,
                                  active |-> active, target |-> None ] ]
                /\ UNCHANGED last
    /\ UNCHANGED <<storage, projectSeq, entrySeq, clock>>

\* the answer to "Would you like to stop the current task and start a new
\* one?": yes closes the entry read before (update_work_entry), no ends
\* the command
StartConfirm(p, stop_current) ==
    /\ pc[p] = "confirm"
    /\ IF stop_current
       THEN /\ \E now \in ClockInstants :
                 /\ Now(now)
                 /\ entries' = UpdateWorkEntry(entries, CloseEntry(local[p].active, now))
            /\ pc' = [ pc EXCEPT ![p] = "resolve" ]
            /\ UNCHANGED <<local, last>>
       ELSE /\ last' = Ended("start", local[p].ref, "cancelled", 0, 0)
            /\ pc' = [ pc EXCEPT ![p] = "idle" ]
            /\ local' = [ local EXCEPT ![p] = NoLocals ]
            /\ UNCHANGED <<entries, clock>>
    /\ UNCHANGED <<projects, projectSeq, entrySeq>>

\* the id of the entry this `start` closed, 0 when it closed none
ClosedBy(p) == IF local[p].active = None THEN 0 ELSE local[p].active.id

\* "Find the project"
StartResolve(p) ==
    /\ pc[p] = "resolve"
    /\ LET target == ResolveProject(projects, local[p].ref)
       IN  IF target = None
           THEN /\ last' = Ended("start", local[p].ref, "not_found", 0, ClosedBy(p))
                /\ pc' = [ pc EXCEPT ![p] = "idle" ]
                /\ local' = [ local EXCEPT ![p] = NoLocals ]
           ELSE /\ pc' = [ pc EXCEPT ![p] = "create" ]
                /\ local' = [ local EXCEPT ![p].target = target ]
                /\ UNCHANGED last
    /\ UNCHANGED <<storage, projectSeq, entrySeq, clock>>

\* "Create the work entry": create_work_entry(WorkEntry(project_id,
\* description, start_time=datetime.now()))
StartCreate(p) ==
    /\ pc[p] = "create"
    /\ \E now \in ClockInstants :
         /\ Now(now)
         /\ entries' = CreateWorkEntry(entries, entrySeq,
                           [ project_id  |-> local[p].target.id,
                             description |-> local[p].description,
                             start_time  |-> now,
                             end_time    |-> None ])
    /\ entrySeq' = entrySeq + 1
    /\ last' = Ended("start", local[p].ref, "started", local[p].target.id, ClosedBy(p))
    /\ pc' = [ pc EXCEPT ![p] = "idle" ]
    /\ local' = [ local EXCEPT ![p] = NoLocals ]
    /\ UNCHANGED <<projects, projectSeq>>

\* stop: the active entry is updated, then get_project(...).name is read for
\* the message: AttributeError, after the update, when that project is gone
StopWork(p) ==
    /\ pc[p] = "idle"
    /\ LET active == GetActiveWorkEntry(entries)
       IN  IF active = None
           THEN /\ last' = Ended("stop", <<>>, "nothing_to_stop", 0, 0)
                /\ UNCHANGED <<entries, clock>>
           ELSE /\ \E now \in ClockInstants :
                     /\ Now(now)
                     /\ entries' = UpdateWorkEntry(entries, CloseEntry(active, now))
                /\ last' = Ended("stop", <<>>,
                                 IF GetProject(projects, active.project_id) = None
                                 THEN "crash" ELSE "stopped",
                                 active.project_id, active.id)
    /\ UNCHANGED <<projects, projectSeq, entrySeq, pc, local>>

\* status: with an active entry, datetime.now() is read for the elapsed time
\* and get_project(...).name for the panel
Status(p) ==
    /\ pc[p] = "idle"
    /\ LET active == GetActiveWorkEntry(entries)
       IN  IF active = None
           THEN /\ last' = Ended("status", <<>>, "no_active", 0, 0)
                /\ UNCHANGED clock
           ELSE /\ \E now \in ClockInstants : Now(now)
                /\ last' = Ended("status", <<>>,
                                 IF GetProject(projects, active.project_id) = None
                                 THEN "crash" ELSE "shown",
                                 active.project_id, 0)
    /\ UNCHANGED <<storage, projectSeq, entrySeq, pc, local>>

\* hour_rate: absent, zero, or a positive rate
Rates == { None, <<0>>, <<85>> }

\* db.create_project(Project(name, is_billed_hourly, hour_rate)), a duplicate
\* name included: the INSERT raises sqlite3.IntegrityError, the connection's
\* `with` block rolls back and nothing is stored
DbCreateProjectCall(name, hourly, rate) ==
    /\ projectSeq < MaxProjects
    /\ IF NameTaken(projects, name, 0)
       THEN /\ last' = Ended("create_project", name, "IntegrityError", 0, 0)
            /\ UNCHANGED <<projects, projectSeq>>
       ELSE /\ projects' = CreateProject(projects, projectSeq,
                               [ name |-> name, is_billed_hourly |-> hourly, hour_rate |-> rate ])
            /\ projectSeq' = projectSeq + 1
            /\ last' = Ended("create_project", name, "created", projectSeq + 1, 0)
    /\ UNCHANGED <<entries, entrySeq, clock, pc, local>>

\* db.update_project(Project(id, name, is_billed_hourly, hour_rate)): False
\* when no row has the id, sqlite3.IntegrityError when another row has the
\* name, else the row is replaced
DbUpdateProjectCall(id, name, hourly, rate) ==
    /\ IF id \notin DOMAIN projects
       THEN /\ last' = Ended("update_project", name, "false", id, 0)
            /\ UNCHANGED projects
       ELSE IF NameTaken(projects, name, id)
       THEN /\ last' = Ended("update_project", name, "IntegrityError", id, 0)
            /\ UNCHANGED projects
       ELSE /\ projects' = UpdateProjectRow(projects,
                               [ id |-> id, name |-> name,
                                 is_billed_hourly |-> hourly, hour_rate |-> rate ])
            /\ last' = Ended("update_project", name, "true", id, 0)
    /\ UNCHANGED <<entries, projectSeq, entrySeq, clock, pc, local>>

\* Projects: the three storage calls that write the projects table.
NextProjects ==
    \/ \E name \in Names, hourly \in BOOLEAN, rate \in Rates :
           DbCreateProjectCall(name, hourly, rate)
    \/ \E id \in 1..MaxProjects, name \in Names, hourly \in BOOLEAN, rate \in Rates :
           DbUpdateProjectCall(id, name, hourly, rate)
    \/ \E id \in 1..MaxProjects : DbDeleteProject(id)

SpecProjects == Init /\ [][NextProjects]_vars

\* the steps of one process
Command(p) ==
    \/ \E name \in Names : AddProject(p, name)
    \/ \E id \in 1..MaxProjects, name \in Names \cup {None} : UpdateProject(p, id, name)
    \/ \E id \in 1..MaxProjects, confirm \in BOOLEAN : DeleteProjectCmd(p, id, confirm)
    \/ \E ref \in Names, desc \in Descriptions : StartCheck(p, ref, desc)
    \/ \E stop_current \in BOOLEAN : StartConfirm(p, stop_current)
    \/ StartResolve(p)
    \/ StartCreate(p)
    \/ StopWork(p)
    \/ Status(p)

\* A single user: every command is run by process 1, one at a time.
Next == Command(1)

Spec == Init /\ [][Next]_vars

\* Two processes on the one database file: every storage call commits on its
\* own connection, so the steps of the two interleave in any order.
NextRace == \E p \in Procs : Command(p)

SpecRace == Init /\ [][NextRace]_vars

-----------------------------------------------------------------------------
(* Properties of the queries and the reports *)

\* the ids of the entries in a query result
ResultIds(pairs) == { pairs[k].entry.id : k \in 1..Len(pairs) }

\* the stored entry `id` as the WorkEntry the storage layer returns
Entry(id) == EntryFromRow(id, entries[id])

\* every stored entry references a stored project
AllProjectsExist == \A id \in DOMAIN entries : entries[id].project_id \in DOMAIN projects

\* The overlap rule of the specification, on datetimes: (a) the start is in
\* [lo, hi], or (b) the end is, or (c) the start is before lo and the end is
\* after hi or absent.
InPeriod(e, lo, hi) ==
    \/ DtLeq(lo, e.start_time) /\ DtLeq(e.start_time, hi)
    \/ e.end_time # None /\ DtLeq(lo, e.end_time) /\ DtLeq(e.end_time, hi)
    \/ /\ DtLess(e.start_time, lo)
       /\ (e.end_time = None \/ DtLess(hi, e.end_time))

\* which of the three cases of the rule decides
OnlyByRuleC(e, lo, hi) ==
    /\ ~(DtLeq(lo, e.start_time) /\ DtLeq(e.start_time, hi))
    /\ ~(e.end_time # None /\ DtLeq(lo, e.end_time) /\ DtLeq(e.end_time, hi))
    /\ InPeriod(e, lo, hi)

DayIds(day) == ResultIds(GetEntriesForDay(projects, entries, day))

WeekIds(day) == ResultIds(GetEntriesForWeek(projects, entries, day))

\* C6: when every entry's project exists, get_entries_for_day(day) and
\* get_entries_for_week(day) return exactly the stored entries that satisfy
\* the overlap rule (a)/(b)/(c) for the day, and for the Monday-Sunday week
\* of the day: none missing, no other returned.
C6_OverlapRule ==
    AllProjectsExist =>
        \A day \in Days :
            /\ DayIds(day) =
                 { id \in DOMAIN entries :
                     InPeriod(Entry(id), StartOfDay(day), EndOfDay(day)) }
            /\ WeekIds(day) =
                 { id \in DOMAIN entries :
                     InPeriod(Entry(id), StartOfDay(StartOfWeek(day)),
                              EndOfDay(EndOfWeek(day))) }

\* C6 witness: two entries of an existing project; for some day one of them
\* is returned for the day and for the week by case (c) alone with an end
\* after the period, and the other is returned for neither.
C6_Witness ==
    /\ AllProjectsExist
    /\ \E day \in Days, id \in DOMAIN entries, other \in DOMAIN entries :
        /\ Entry(id).end_time # None
        /\ OnlyByRuleC(Entry(id), StartOfDay(day), EndOfDay(day))
        /\ OnlyByRuleC(Entry(id), StartOfDay(StartOfWeek(day)), EndOfDay(EndOfWeek(day)))
        /\ id \in DayIds(day) /\ id \in WeekIds(day)
        /\ other \notin DayIds(day) /\ other \notin WeekIds(day)

\* the entry's interval [start, end] (endless when active) meets the day
Intersects(e, day) ==
    /\ DtLeq(e.start_time, EndOfDay(day))
    /\ (e.end_time = None \/ DtLeq(StartOfDay(day), e.end_time))

\* start_time <= end_time, or still active
WellOrdered(e) == e.end_time = None \/ DtLeq(e.start_time, e.end_time)

\* C7 as stated: every stored entry with start_time <= end_time (or active)
\* is returned by get_entries_for_day(day) exactly when its interval
\* meets the day.
C7_AsStated ==
    \A id \in DOMAIN entries, day \in Days :
        WellOrdered(Entry(id)) => (id \in DayIds(day) <=> Intersects(Entry(id), day))

\* C7 amended: every stored entry whose project exists and whose start_time
\* is <= end_time (or that is active) is returned by get_entries_for_day(day)
\* exactly when its interval meets the day; so a completed entry from day D
\* to day D+1 is returned for D and for D+1, and an active entry for its
\* start day and every later day and for no earlier day.
C7_IntervalIntersection ==
    \A id \in DOMAIN entries :
        (entries[id].project_id \in DOMAIN projects /\ WellOrdered(Entry(id))) =>
            /\ \A day \in Days : id \in DayIds(day) <=> Intersects(Entry(id), day)
            /\ \A day \in Days :
                 ( /\ Entry(id).end_time # None
                   /\ Entry(id).start_time[1] = day
                   /\ Entry(id).end_time[1] = day + 1 /\ day + 1 \in Days )
                 => (id \in DayIds(day) /\ id \in DayIds(day + 1))
            /\ Entry(id).end_time = None =>
                 \A day \in Days : id \in DayIds(day) <=> day >= Entry(id).start_time[1]

\* C7 witness: of an existing project, a completed entry that starts on one
\* day and ends on the next, returned for both, and an active entry that is
\* returned for a later day and not for an earlier one.
C7_Witness ==
    \E id \in DOMAIN entries, act \in DOMAIN entries :
        /\ entries[id].project_id \in DOMAIN projects
        /\ Entry(id).end_time # None
        /\ Entry(id).end_time[1] = Entry(id).start_time[1] + 1
        /\ id \in DayIds(Entry(id).start_time[1])
        /\ id \in DayIds(Entry(id).end_time[1])
        /\ Entry(act).end_time = None
        /\ Entry(act).start_time[1] \in 1..(MaxDay - 1)
        /\ act \in DayIds(MaxDay)
        /\ act \notin DayIds(0)

\* the sum of amount(x) over the elements of a finite set
RECURSIVE SumOver(_, _)
SumOver(amount(_), set) ==
    IF set = {} THEN ZeroDelta
    ELSE LET x == CHOOSE y \in set : TRUE
         IN  TdAdd(amount(x), SumOver(amount, set \ {x}))

\* end_time - start_time of a stored, completed entry
Elapsed(id) == DtSub(Entry(id).end_time, Entry(id).start_time)

\* the returned entries of a day that are completed (of one project)
CompletedIds(day) == { id \in DayIds(day) : entries[id].end_time # NULL }

CompletedIdsOf(day, pid) == { id \in CompletedIds(day) : entries[id].project_id = pid }

CellHours(cell) == IF cell = None THEN ZeroDelta ELSE cell

\* C9: in the weekly report of any week each project's total is the sum of
\* its seven cells, Monday to Sunday, an empty cell counting as 0 (stated
\* here for storage whose entries end no earlier than they start).
C9_WeeklyTotalIsSumOfBuckets ==
    (\A id \in DOMAIN entries : WellOrdered(Entry(id))) =>
        \A day \in Days :
            LET report == WeekReport(projects, entries, day)
            IN  report # None =>
                  \A pid \in Range(report.order) :
                      LET Cell(i) == CellHours(report.cells[pid][i])
                      IN  report.project_hours[pid] = SumOver(Cell, 1..DaysInWeek)

\* C10: duration_hours of every entry with start_time and end_time is
\* (end_time - start_time) / 3600, which is 0 when the two are equal.
C10_DurationHours ==
    \A id \in DOMAIN entries :
        Entry(id).end_time # None => DurationHours(Entry(id)) = Elapsed(id)

-----------------------------------------------------------------------------
(* Properties of the session commands *)

\* C1: with one process running start (the confirmation answered either
\* way), stop and status one after the other, at most one work entry has no
\* end_time, in every state, between the storage calls of a command too.
C1_SingleActiveEntry == Cardinality(ActiveIds(entries)) <= 1

\* C1 witness: a confirmed start has closed the active entry and opened
\* another: two entries, one of them active.
C1_Witness ==
    /\ last.op = "start" /\ last.outcome = "started" /\ last.closed # 0
    /\ Cardinality(DOMAIN entries) = 2
    /\ Cardinality(ActiveIds(entries)) = 1

\* C2: a start that finds an active entry changes nothing in projects and
\* work_entries when the confirmation is declined; when it is confirmed the
\* active entry gets end_time = now and no entry is active any more, and a
\* new entry is inserted only in a state where no entry is active.
C2_StartWhileActive ==
    [][ /\ (pc[1] = "idle" /\ pc'[1] = "confirm") => UNCHANGED storage
        /\ (pc[1] = "confirm" /\ pc'[1] = "idle") => UNCHANGED storage
        /\ (pc[1] = "confirm" /\ pc'[1] = "resolve") =>
              /\ ActiveIds(entries') = {}
              /\ projects' = projects
              /\ \E id \in ActiveIds(entries) :
                    entries' = [ entries EXCEPT ![id].end_time = isoformat(clock') ]
        /\ (DOMAIN entries' # DOMAIN entries) => ActiveIds(entries) = {}
      ]_vars

\* C2 witness: start stands before its insert, having closed the entry it
\* found active.
C2_Witness ==
    /\ pc[1] = "create"
    /\ local[1].active # None
    /\ entries[local[1].active.id].end_time # NULL
    /\ ActiveIds(entries) = {}

\* C3: a stop that finds an active entry sets that entry's end_time to the
\* timestamp read, leaves its other fields, every other entry and every
\* project as they were, and get_active_work_entry then returns None.
C3_StopActive ==
    [][ (StopWork(1) /\ ActiveIds(entries) # {}) =>
          /\ \E id \in ActiveIds(entries) :
                entries' = [ entries EXCEPT ![id].end_time = isoformat(clock') ]
          /\ projects' = projects
          /\ GetActiveWorkEntry(entries') = None
      ]_vars

\* C3 witness: stop has closed the entry of a start made at an earlier instant.
C3_Witness ==
    /\ last.op = "stop" /\ last.outcome = "stopped"
    /\ last.closed \in DOMAIN entries
    /\ entries[last.closed].end_time # NULL
    /\ entries[last.closed].end_time # entries[last.closed].start_time
    /\ ActiveIds(entries) = {}

\* C4: a stop that finds no active entry reports "No active work to stop",
\* raises nothing and leaves projects and work_entries unchanged; a stop run
\* right after a stop changes nothing.
C4_StopIdle ==
    [][ StopWork(1) =>
          /\ ActiveIds(entries) = {} =>
                (last'.outcome = "nothing_to_stop" /\ UNCHANGED storage)
          /\ last.op = "stop" => UNCHANGED storage
      ]_vars

\* C4 witness: stop found nothing to stop in a storage that holds a closed
\* entry with an end_time earlier than the clock.
C4_Witness ==
    /\ last.op = "stop" /\ last.outcome = "nothing_to_stop"
    /\ \E id \in DOMAIN entries :
          entries[id].end_time # NULL /\ TextLess(entries[id].end_time, isoformat(clock))

\* the project a reference stands for under the specification: the project
\* of that id when the reference is an integer and the id exists, else the
\* project of that name, else none (0)
ReferredProject(ref) ==
    IF IsIntLiteral(ref) /\ IntValue(ref) \in DOMAIN projects THEN IntValue(ref)
    ELSE IF \E id \in DOMAIN projects : projects[id].name = ref
         THEN CHOOSE id \in DOMAIN projects : projects[id].name = ref
         ELSE 0

\* C5: start resolves its project reference by id when the reference is an
\* integer and that id exists and otherwise by name, and reports the project
\* as not found only when neither lookup finds one.
C5_ProjectResolution ==
    (last.op = "start" /\ last.outcome \in { "started", "not_found" }) =>
        /\ last.target = ReferredProject(last.ref)
        /\ last.outcome = "not_found" <=> ReferredProject(last.ref) = 0

-----------------------------------------------------------------------------
(* Properties of billing *)

\* the projects a sequence of billing lines names
BilledProjects(lines) == { lines[k].project : k \in 1..Len(lines) }

\* the stored project is billed hourly and has an hour_rate (of any value)
HourlyWithRate(pid) ==
    projects[pid].is_billed_hourly # 0 /\ projects[pid].hour_rate # NULL

\* the billing lines are exactly those of the hourly projects with a rate
\* among `order`, each of amount hours * hour_rate
BillsExactly(lines, order, hours) ==
    /\ BilledProjects(lines) = { pid \in Range(order) : HourlyWithRate(pid) }
    /\ \A k \in 1..Len(lines) :
          lines[k].amount = Amount(hours[lines[k].project],
                                   RateFromReal(projects[lines[k].project].hour_rate))

\* C11: in the daily and in the weekly report of any day, a billing amount is
\* printed for a project of the report exactly when the project is billed
\* hourly and has an hour_rate (0 included), and it is the project's report
\* hours times the rate.
C11_BillingCondition ==
    \A day \in Days :
        LET daily  == DayReport(projects, entries, day)
            weekly == WeekReport(projects, entries, day)
        IN  /\ daily # None =>
                 BillsExactly(DayBilling(projects, entries, day),
                              daily.order, daily.project_hours)
            /\ weekly # None =>
                 BillsExactly(WeekBilling(projects, entries, day),
                              weekly.order, weekly.project_hours)

\* the completed entries of a project that get_entries_for_week returns
CompletedWeekIdsOf(day, pid) ==
    { id \in WeekIds(day) : entries[id].end_time # NULL /\ entries[id].project_id = pid }

CellWithHours(cell) == cell # None /\ HoursPositive(cell)

-----------------------------------------------------------------------------
(* Properties of active and orphaned entries in the reports *)

\* the grand total of a report, 0 when there is none
TotalOf(report) == IF report = None THEN ZeroDelta ELSE report.total_hours

\* a project's total in a report, 0 when the report does not show the project
ProjectHoursOf(report, pid) ==
    IF report = None THEN ZeroDelta
    ELSE IF pid \in Range(report.order) THEN report.project_hours[pid] ELSE ZeroDelta

\* the hours of a day cell of a weekly report, "-" and a missing row being 0
CellOf(report, pid, i) ==
    IF report = None THEN ZeroDelta
    ELSE IF pid \in Range(report.order) THEN CellHours(report.cells[pid][i]) ELSE ZeroDelta

\* the daily report lists the entry under its project, marked in progress
ListedInProgress(report, id) ==
    /\ report # None
    /\ entries[id].project_id \in Range(report.order)
    /\ \E k \in 1..Len(report.entries[entries[id].project_id]) :
          /\ report.entries[entries[id].project_id][k].id = id
          /\ EntryColumns(report.entries[entries[id].project_id][k]).end = "In progress"

\* the reports of `day` show the active entry `id` and count no hours for it:
\* every total is what it is for the storage without the entry
ShownWithZeroHours(id, day) ==
    LET pid     == entries[id].project_id
        without == Remove(entries, id)
        daily   == DayReport(projects, entries, day)
        weekly  == WeekReport(projects, entries, day)
    IN  /\ InPeriod(Entry(id), StartOfDay(day), EndOfDay(day)) =>
             /\ ListedInProgress(daily, id)
             /\ TotalOf(daily) = TotalOf(DayReport(projects, without, day))
             /\ ProjectHoursOf(daily, pid) =
                  ProjectHoursOf(DayReport(projects, without, day), pid)
        /\ InPeriod(Entry(id), StartOfDay(StartOfWeek(day)), EndOfDay(EndOfWeek(day))) =>
             /\ id \in WeekIds(day)
             /\ weekly # None /\ pid \in Range(weekly.order)
             /\ TotalOf(weekly) = TotalOf(WeekReport(projects, without, day))
             /\ ProjectHoursOf(weekly, pid) =
                  ProjectHoursOf(WeekReport(projects, without, day), pid)
             /\ \A i \in 1..DaysInWeek :
                   CellOf(weekly, pid, i) = CellOf(WeekReport(projects, without, day), pid, i)

-----------------------------------------------------------------------------
(* Properties of the projects table *)

\* no two stored projects have the same name
UniqueNames(projs) ==
    \A i \in DOMAIN projs, j \in DOMAIN projs : projs[i].name = projs[j].name => i = j

\* C15: after every create_project, update_project and delete_project call
\* the stored projects have distinct names; a create with a stored name, and
\* an update of a stored project to the name of another one, raise
\* IntegrityError and leave the projects table as it was.
C15_UniqueProjectNames ==
    [][ /\ UniqueNames(projects')
        /\ \A name \in Names :
              ( /\ \E hourly \in BOOLEAN, rate \in Rates :
                       DbCreateProjectCall(name, hourly, rate)
                /\ \E id \in DOMAIN projects : projects[id].name = name )
              => (last'.outcome = "IntegrityError" /\ projects' = projects)
        /\ \A id \in DOMAIN projects, name \in Names :
              ( /\ \E hourly \in BOOLEAN, rate \in Rates :
                       DbUpdateProjectCall(id, name, hourly, rate)
                /\ \E other \in DOMAIN projects \ {id} : projects[other].name = name )
              => (last'.outcome = "IntegrityError" /\ projects' = projects)
      ]_vars

\* C15 witness: two projects are stored and an update of one to the other's
\* name has just failed.
C15_Witness ==
    /\ Cardinality(DOMAIN projects) = 2
    /\ last.op = "update_project" /\ last.outcome = "IntegrityError"
    /\ last.target \in DOMAIN projects
    /\ projects[last.target].name # last.ref
    /\ \E other \in DOMAIN projects : projects[other].name = last.ref

-----------------------------------------------------------------------------
(* Properties of two processes running commands at once *)

\* C16: with two processes, a step that opens an entry while another entry
\* is active is the insert of a start that read no active entry at its check
\* or has closed the entry it read: no start inserts knowing of an open
\* entry, and still the interleaving check, check, insert, insert reaches two
\* entries without end_time (the witness).
C16_RaceOnStart ==
    [][ ( /\ ActiveIds(entries) # {}
          /\ Cardinality(ActiveIds(entries')) > Cardinality(ActiveIds(entries)) )
        => \E p \in Procs :
              /\ pc[p] = "create" /\ pc'[p] = "idle"
              /\ \/ local[p].active = None
                 \/ local[p].active.id \notin ActiveIds(entries)
      ]_vars

\* C16 witness: both processes have run start to its end and the two entries
\* stored, one inserted by each, both have no end_time.
C16_Witness ==
    /\ pc[1] = "idle" /\ pc[2] = "idle"
    /\ last.op = "start" /\ last.outcome = "started" /\ last.closed = 0
    /\ Cardinality(DOMAIN entries) = 2
    /\ ActiveIds(entries) = DOMAIN entries

-----------------------------------------------------------------------------
(* Properties of commands and storage when a project is deleted *)

\* C17: with one process running project and session commands, no start,
\* stop or status ends in an unhandled error.
C17_NoUnhandledError ==
    last.op \in { "start", "stop", "status" } => last.outcome # "crash"

\* the stored entries whose project is stored too
NonOrphans == [ id \in { i \in DOMAIN entries : entries[i].project_id \in DOMAIN projects }
                  |-> entries[id] ]

\* C18: delete_project removes the project's row and nothing else: the other
\* projects and every work entry, the deleted project's included, are as
\* before, get_work_entry and get_active_work_entry return what they
\* returned; and in every state the entries of missing projects are returned
\* by get_entries_for_day and get_entries_for_week for no day, the reports
\* being those of the storage without them.
C18_DeleteProjectKeepsEntries ==
    /\ [][ \A pid \in 1..MaxProjects :
              DbDeleteProject(pid) =>
                 /\ DOMAIN projects' = DOMAIN projects \ {pid}
                 /\ \A other \in DOMAIN projects' : projects'[other] = projects[other]
                 /\ entries' = entries
                 /\ \A id \in DOMAIN entries :
                       GetWorkEntry(entries', id) = GetWorkEntry(entries, id)
                 /\ GetActiveWorkEntry(entries') = GetActiveWorkEntry(entries)
         ]_vars
    /\ [] \A day \in Days :
            /\ \A id \in DOMAIN entries :
                  entries[id].project_id \notin DOMAIN projects =>
                      (id \notin DayIds(day) /\ id \notin WeekIds(day))
            /\ DayReport(projects, entries, day) = DayReport(projects, NonOrphans, day)
            /\ WeekReport(projects, entries, day) = WeekReport(projects, NonOrphans, day)

\* C18 witness: project 1 was deleted and a project is stored; an active and
\* a completed entry of project 1 are still stored, the active one is what
\* get_active_work_entry returns, and both meet day 1 without being returned
\* for it.
C18_Witness ==
    /\ projectSeq >= 1 /\ 1 \notin DOMAIN projects /\ DOMAIN projects # {}
    /\ \E id \in DOMAIN entries, other \in DOMAIN entries :
          /\ entries[id].project_id = 1 /\ entries[other].project_id = 1
          /\ entries[id].end_time = NULL
          /\ entries[other].end_time # NULL
          /\ GetActiveWorkEntry(entries) = GetWorkEntry(entries, id)
          /\ InPeriod(Entry(id), StartOfDay(1), EndOfDay(1))
          /\ InPeriod(Entry(other), StartOfDay(1), EndOfDay(1))
          /\ DayIds(1) = {} /\ WeekIds(1) = {}

-----------------------------------------------------------------------------
(* Properties of get_active_work_entry *)

\* C19: get_active_work_entry returns None exactly when every stored entry
\* has an end_time; otherwise it returns one of the stored entries without
\* end_time, as stored, also when there are several; and an entry that an
\* update gives an end_time is not returned after the update.
C19_GetActiveWorkEntry ==
    /\ [] LET active == GetActiveWorkEntry(entries)
          IN  /\ active = None <=> \A id \in DOMAIN entries : entries[id].end_time # NULL
              /\ active # None =>
                   /\ active.id \in DOMAIN entries
                   /\ entries[active.id].end_time = NULL
                   /\ active.end_time = None
                   /\ active = GetWorkEntry(entries, active.id)
    /\ [][ \A end \in EntryInstants :
              DbCloseActiveEntry(end) =>
                 /\ entries'[GetActiveWorkEntry(entries).id].end_time = isoformat(end)
                 /\ \/ GetActiveWorkEntry(entries') = None
                    \/ GetActiveWorkEntry(entries').id # GetActiveWorkEntry(entries).id
         ]_vars

\* C19 witness: two entries are stored without end_time and
\* get_active_work_entry returns one of them.
C19_Witness ==
    /\ Cardinality({ id \in DOMAIN entries : entries[id].end_time = NULL }) = 2
    /\ GetActiveWorkEntry(entries) # None
    /\ entries[GetActiveWorkEntry(entries).id].end_time = NULL

-----------------------------------------------------------------------------
(* Properties of a start that does not find its project *)

\* C20: the step in which start reports its project as not found creates no
\* entry and changes nothing in storage, and leaves no entry active; when
\* the start had found an active entry and stopping it was confirmed, that
\* entry is closed already, with the timestamp read at the confirmation, so
\* storage differs from what the start found; when it had found none,
\* nothing was written by the command.
C20_FailedStart ==
    [][ (pc[1] = "resolve" /\ pc'[1] = "idle") =>
          /\ last'.op = "start" /\ last'.outcome = "not_found"
          /\ UNCHANGED <<storage, entrySeq>>
          /\ ActiveIds(entries') = {}
          /\ local[1].active # None =>
                /\ local[1].active.end_time = None
                /\ last'.closed = local[1].active.id
                /\ entries'[local[1].active.id] =
                      [ EntryRow(local[1].active) EXCEPT !.end_time = isoformat(clock) ]
          /\ local[1].active = None => last'.closed = 0
      ]_vars

\* C20 witness: a start that closed the active entry, at a later instant
\* than the entry's start, has ended with its project not found; no entry is
\* active and none was created.
C20_Witness ==
    /\ last.op = "start" /\ last.outcome = "not_found"
    /\ last.closed \in DOMAIN entries
    /\ entries[last.closed].end_time # NULL
    /\ entries[last.closed].end_time # entries[last.closed].start_time
    /\ ActiveIds(entries) = {}
    /\ Cardinality(DOMAIN entries) = 1


-----------------------------------------------------------------------------
(* The week query against the seven day queries *)

\* the days of the week of `day` for which get_entries_for_day returns `id`
DaysReturning(id, day) ==
    { i \in 1..DaysInWeek : id \in DayIds(WeekDays(day)[i]) }

\* C21: for every stored set of entries and every day d, the entries
\* returned by get_entries_for_week(d) are exactly those returned by
\* get_entries_for_day for one of the 7 days Monday..Sunday of the week of
\* d, and get_entries_for_week returns the same list for any two days of
\* the same Monday-Sunday week.
C21_WeekIsUnionOfDays ==
    \A d \in Days :
        /\ WeekIds(d) = UNION { DayIds(WeekDays(d)[i]) : i \in 1..DaysInWeek }
        /\ \A other \in Days :
             (other > d /\ StartOfWeek(other) = StartOfWeek(d)) =>
                GetEntriesForWeek(projects, entries, other) =
                    GetEntriesForWeek(projects, entries, d)

\* C21 witness: for the week of day 1 (Monday), one stored entry is returned
\* for the week and for its Sunday alone, and another stored entry is in no
\* day of that week and not in the week, while it is in the week after.
C21_Witness ==
    \E id \in DOMAIN entries, out \in DOMAIN entries :
        /\ id \in WeekIds(1)
        /\ DaysReturning(id, 1) = { DaysInWeek }
        /\ out \notin WeekIds(1)
        /\ DaysReturning(out, 1) = {}
        /\ out \in WeekIds(MaxDay)


-----------------------------------------------------------------------------
(* The intervals written by start and stop *)

\* the stored entry `id` is closed
Closed(ents, id) == id \in DOMAIN ents /\ ents[id].end_time # NULL

\* every closed entry has start_time <= end_time
ClosedWellOrdered ==
    \A id \in DOMAIN entries : Closed(entries, id) => WellOrdered(Entry(id))

\* every entry created before another one is closed, and ended no later
\* than the other one starts
StartsAfterEarlierEnded ==
    \A i \in DOMAIN entries, j \in DOMAIN entries :
        i < j => /\ Closed(entries, i)
                 /\ DtLeq(Entry(i).end_time, Entry(j).start_time)

\* a closed entry stays stored and closed
ClosedStaysClosed ==
    \A id \in DOMAIN entries : Closed(entries, id) => Closed(entries', id)

\* C22: with entries created and closed only by start and stop of one
\* process whose clock never goes backwards, in every reachable state every
\* closed entry has start_time <= end_time and every entry starts no
\* earlier than each entry created before it ended (two intervals share at
\* most an endpoint), and no step makes a closed entry active again.
C22_OrderedIntervals ==
    /\ [](ClosedWellOrdered /\ StartsAfterEarlierEnded)
    /\ [][ClosedStaysClosed]_vars

\* C22 witness: stop has closed the second of two entries; the first one
\* lasted from one instant to a later one, the second one started at the
\* very instant the first ended and ended later.
C22_Witness ==
    /\ last.op = "stop" /\ last.closed = 2
    /\ DOMAIN entries = {1, 2}
    /\ Closed(entries, 1) /\ Closed(entries, 2)
    /\ DtLess(Entry(1).start_time, Entry(1).end_time)
    /\ Entry(1).end_time = Entry(2).start_time
    /\ DtLess(Entry(2).start_time, Entry(2).end_time)

====
